---- MODULE Spec2Model ----
(***************************************************************************)
(* Volume-resize reconciliation of the postgres operator, modelled from    *)
(* src/pkg/cluster/volumes.go (src/unnamed/part_000 holds an earlier       *)
(* revision of the same file; the model follows volumes.go).               *)
(*                                                                         *)
(* One call of resizeVolumes is a sequence of steps, one per call the      *)
(* function makes to the store, to a resizer or to the filesystem          *)
(* resizer; every such call may succeed or fail.  Quantities are counted   *)
(* in units of half a gigabyte, so that quantityToGigabyte truncates.      *)
(*                                                                         *)
(* The code imports k8s.io/client-go/pkg/api/v1 and is built without a     *)
(* go.mod, that is with the loop semantics of Go before 1.22: the variable *)
(* of a range loop is one variable for the whole loop, and a closure that  *)
(* names it reads the value the loop has reached when the closure runs.    *)
(*                                                                         *)
(* Spec has the calls on a store of claims named by pod ordinal; SpecNames *)
(* gives one claim any of the names the listing tells apart; SpecPasses    *)
(* repeats resizeVolumes with one size, under fairness.                    *)
(***************************************************************************)
EXTENDS Integers, Sequences, FiniteSets, TLC

\* Bounds of the model.
NVols == 2          \* claims (and bound volumes) the store holds
MaxResizers == 2    \* longest resizers list handed to resizeVolumes
MaxQty == 4         \* largest manifest quantity, in units

\* constants.Gigabyte, scaled down: one gigabyte is two units.
Gigabyte == 2

Vols == 1..NVols
Providers == {"ebs", "gce"}
\* Manifest quantities: a negative one, which Go's division truncates toward
\* zero, and the positive ones.
Quantities == {-1} \cup 1..MaxQty

\* A manifest size string: whether resource.ParseQuantity accepts it, and the
\* quantity it then yields.
SizeInputs ==
    {[parses |-> TRUE, quantity |-> q] : q \in Quantities}
        \cup {[parses |-> FALSE, quantity |-> 0]}

\* The store call of a listing that fails, if any: the List of the claims, or
\* the Get of one volume.
NoFault == [call |-> "none", vol |-> 0]
StoreFaults ==
    {NoFault, [call |-> "list", vol |-> 0]} \cup {[call |-> "get", vol |-> v] : v \in Vols}

RECURSIVE SeqsUpTo(_, _)
SeqsUpTo(S, n) ==
    IF n = 0 THEN {<<>>}
    ELSE LET shorter == SeqsUpTo(S, n - 1)
         IN  shorter \cup {Append(s, x) : s \in {t \in shorter : Len(t) = n - 1}, x \in S}

ResizerLists == SeqsUpTo(Providers, MaxResizers)

Max(S) == CHOOSE x \in S : \A y \in S : y <= x

VARIABLES
    capacity,       \* store: recorded capacity of each volume, in units
    provider,       \* store: the provisioner each volume comes from
    replicas,       \* *c.Statefulset.Spec.Replicas
    pvcs,           \* store: the cluster's claims, in listing order
    pc,             \* position of the running call
    op,             \* the running operation
    size,           \* newVolume.Size of the running call
    resizers,       \* the resizers list of the running call (provider of each)
    connected,      \* connection flag of each resizer of the list
    pvs,            \* local: the listed volumes, each a copy [vol, cap]
    i,              \* local: index of pv in pvs
    j,              \* local: index of resizer in resizers
    loopVar,        \* local: value of the `resizer` variable of volume i's inner loop
    totalCompatible,\* local
    deferred,       \* local: the deferred disconnect closures, oldest first
    err,            \* the returned error
    need,           \* the boolean volumesNeedResizing returned
    calls,          \* history: the calls made to the store and the backends
    before          \* history: the store's capacities when the call began

vars == <<capacity, provider, replicas, pvcs, pc, op, size,
          resizers, connected, pvs, i, j, loopVar, totalCompatible, deferred,
          err, need, calls, before>>

world == <<provider, replicas, pvcs>>

----------------------------------------------------------------------------
\* Strings are sequences of one-character strings.
Digits == <<"0", "1", "2", "3", "4", "5", "6", "7", "8", "9">>

DigitVal(c) == (CHOOSE k \in 1..10 : Digits[k] = c) - 1

IsDigit(c) == \E k \in 1..10 : Digits[k] = c

\* strings.LastIndex(s, "-"): 0-based index of the last c, or -1
LastIndex(s, c) ==
    LET at == {k \in 1..Len(s) : s[k] = c}
    IN  IF at = {} THEN -1 ELSE Max(at) - 1

\* An int holds more than 32 bits: its magnitude is kept as hi * Word + lo,
\* with lo in 0..Word-1, so that the conversion to int32 can drop the high
\* bits as Go does.  Word is 2^16.
Word == 65536

RECURSIVE DecValue(_)
DecValue(t) ==
    IF t = <<>> THEN [hi |-> 0, lo |-> 0]
    ELSE LET front == DecValue(SubSeq(t, 1, Len(t) - 1))
             low   == 10 * front.lo + DigitVal(t[Len(t)])
         IN  [hi |-> 10 * front.hi + low \div Word, lo |-> low % Word]

\* strconv.Atoi: an optional sign, then digits only (tokens here have at
\* most 18 digits, which fit an int)
Atoi(t) ==
    LET body == IF t # <<>> /\ t[1] \in {"+", "-"} THEN Tail(t) ELSE t
    IN  IF body = <<>> \/ \E k \in 1..Len(body) : ~IsDigit(body[k])
        THEN [ok |-> FALSE, val |-> [neg |-> FALSE, hi |-> 0, lo |-> 0]]
        ELSE [ok |-> TRUE,
              val |-> [neg |-> t[1] = "-", hi |-> DecValue(body).hi, lo |-> DecValue(body).lo]]

\* int32(n): the low 32 bits of n, read as a signed number
MinInt32 == (0 - Word \div 2) * Word

Int32(n) ==
    LET h == n.hi % Word
        w == IF h >= Word \div 2 THEN (h - Word) * Word + n.lo ELSE h * Word + n.lo
    IN  IF n.neg /\ w # MinInt32 THEN 0 - w ELSE w

\* The name the statefulset gives the claim of pod ordinal n.
ClaimName(n) == <<"d", "-", Digits[n + 1]>>

\* Go's integer division truncates toward zero.
QuoT(a, b) == IF a >= 0 THEN a \div b ELSE 0 - ((0 - a) \div b)

quantityToGigabyte(q) == QuoT(q, 1 * Gigabyte)

\* resource.ParseQuantity(newVolume.Size) returns an error
ParseFails(s) == ~s.parses

----------------------------------------------------------------------------
\* listPersistentVolumes: the claims of running pods, each resolved to its
\* volume.  fault names the store call that fails: "list", or the volume
\* whose Get fails.  Result: the volumes, the error, the store calls issued.
\* Mutant of line 63: a dash in first place counts as well.
SkipsAnyDash(name, lastPodIndex) ==
    LET lastDash == LastIndex(name, "-")
    IN  /\ lastDash >= 0
        /\ lastDash < Len(name) - 1
        /\ Atoi(SubSeq(name, lastDash + 2, Len(name))).ok
        /\ Int32(Atoi(SubSeq(name, lastDash + 2, Len(name))).val) > lastPodIndex

SkipsClaim(name, lastPodIndex) ==
    LET lastDash == LastIndex(name, "-")
    IN  /\ lastDash > 0
        /\ lastDash < Len(name) - 1
        /\ Atoi(SubSeq(name, lastDash + 2, Len(name))).ok
        /\ Int32(Atoi(SubSeq(name, lastDash + 2, Len(name))).val) > lastPodIndex

\* Mutant of lines 64-67: no token is refused.
MalformedNever(name) == FALSE

MalformedClaim(name) ==
    LET lastDash == LastIndex(name, "-")
    IN  /\ lastDash > 0
        /\ lastDash < Len(name) - 1
        /\ ~Atoi(SubSeq(name, lastDash + 2, Len(name))).ok

\* A call to the store made by the listing, and whether it succeeded, as an
\* entry of the call history (no resizer, no size argument).
StoreCall(c, v, ok) == [call |-> c, vol |-> v, r |-> 0, ok |-> ok, arg |-> 0]

RECURSIVE ListFrom(_, _, _, _, _)
ListFrom(k, result, gets, fault, cap) ==
    IF k > Len(pvcs) THEN [pvs |-> result, err |-> "nil", gets |-> gets]
    ELSE IF MalformedClaim(pvcs[k].Name)
         THEN [pvs |-> <<>>, err |-> "MalformedIdentifier", gets |-> gets]
    ELSE IF SkipsClaim(pvcs[k].Name, replicas - 1)
         THEN ListFrom(k + 1, result, gets, fault, cap)
    ELSE IF fault = [call |-> "get", vol |-> pvcs[k].VolumeName]
         THEN [pvs |-> <<>>, err |-> "StoreAccessError",
               gets |-> Append(gets, StoreCall("get", pvcs[k].VolumeName, FALSE))]
    ELSE ListFrom(k + 1,
                  Append(result, [vol |-> pvcs[k].VolumeName,
                                  cap |-> cap[pvcs[k].VolumeName]]),
                  Append(gets, StoreCall("get", pvcs[k].VolumeName, TRUE)), fault, cap)

\* Mutant of lines 74-76: a Get that fails is passed over and the rest is
\* returned as the batch.
listPartial(fault, cap) ==
    LET full  == ListFrom(1, <<>>, <<StoreCall("list", 0, TRUE)>>, NoFault, cap)
        l     == ListFrom(1, <<>>, <<StoreCall("list", 0, TRUE)>>, fault, cap)
        other(x) == x.vol # fault.vol
    IN  IF fault.call = "list"
        THEN [pvs |-> <<>>, err |-> "StoreAccessError",
              gets |-> <<StoreCall("list", 0, FALSE)>>]
        ELSE IF l.err = "StoreAccessError"
        THEN [pvs |-> SelectSeq(full.pvs, other), err |-> "nil", gets |-> l.gets]
        ELSE l

listPersistentVolumes(fault, cap) ==
    IF fault.call = "list"
    THEN [pvs |-> <<>>, err |-> "StoreAccessError",
          gets |-> <<StoreCall("list", 0, FALSE)>>]
    ELSE ListFrom(1, <<>>, <<StoreCall("list", 0, TRUE)>>, fault, cap)

\* listVolumesWithManifestSize: the parse, then the listing
listVolumesWithManifestSize(s, fault, cap) ==
    IF ParseFails(s)
    THEN [pvs |-> <<>>, newSize |-> 0, err |-> "InvalidSizeSpec", gets |-> <<>>]
    ELSE LET l == listPersistentVolumes(fault, cap)
         IN  [pvs |-> l.pvs,
              newSize |-> IF l.err = "nil" THEN quantityToGigabyte(s.quantity) ELSE 0,
              err |-> l.err, gets |-> l.gets]

\* volumesNeedResizing's loop: some listed volume differs from the manifest size
\* Mutant of line 155: only volumes below the manifest size count.
SomeSizeSmaller(vols, manifestSize) ==
    \E k \in 1..Len(vols) : quantityToGigabyte(vols[k].cap) < manifestSize

SomeSizeDiffers(vols, manifestSize) ==
    \E k \in 1..Len(vols) : quantityToGigabyte(vols[k].cap) # manifestSize

\* resizer.VolumeBelongsToProvider(pv), for the resizer at place r of the list
VolumeBelongsToProvider(r, v) == resizers[r] = provider[v]

newSize == quantityToGigabyte(size.quantity)

\* Mutant of line 134: the capacity written is the size in gigabytes.
newQuantityInGigabytes == newSize

newQuantity == size.quantity

\* Mutants of the comparison of line 98: off by one, and never true.
ShrinksOffByOne(volumeSize, target) == volumeSize > target + 1
ShrinksNever(volumeSize, target) == FALSE

\* The comparison of line 98.
Shrinks(volumeSize, target) == volumeSize > target

\* Mutant of the comparison of line 101: no volume is skipped.
AtTargetNever(volumeSize, target) == FALSE

\* The comparison of line 101.
AtTarget(volumeSize, target) == volumeSize = target

\* Mutant of the condition of line 109: connect for every matching volume.
\* Mutants of the condition of line 109: never connect, always connect.
NeedsConnectNever(r) == FALSE

NeedsConnectAlways(r) == TRUE

\* The condition of line 109: !resizer.IsConnectedToProvider()
NeedsConnect(r) == ~connected[r]

\* Mutant of the condition of line 142: a batch of one volume never fails.
NoneCompatibleMany(nPvs, compatible) == nPvs > 1 /\ compatible = 0

\* The condition of line 142.
NoneCompatible(nPvs, compatible) == nPvs > 0 /\ compatible = 0

\* The resizer's connection flag (what IsConnectedToProvider reports) after a
\* successful ConnectToProvider and after DisconnectFromProvider.
AfterConnect(c, r) == [c EXCEPT ![r] = TRUE]
AfterDisconnect(c, r) == [c EXCEPT ![r] = FALSE]

\* An entry of the call history: the call, the resizer (its place in the
\* list) and the volume it is made for, its outcome, and its size argument.
EventArg(c, r, v, ok, a) == [call |-> c, vol |-> v, r |-> r, ok |-> ok, arg |-> a]
Event(c, r, v, ok) == EventArg(c, r, v, ok, 0)

----------------------------------------------------------------------------
NoLocals ==
    /\ op = "none" /\ size = [parses |-> FALSE, quantity |-> 0] /\ resizers = <<>> /\ connected = <<>>
    /\ pvs = <<>> /\ i = 0 /\ j = 0
    /\ loopVar = [v \in Vols |-> 0]
    /\ totalCompatible = 0 /\ deferred = <<>>
    /\ err = "nil" /\ need = FALSE /\ calls = <<>>
    /\ before = [v \in Vols |-> 0]

Init ==
    /\ capacity = [v \in Vols |-> 1]
    /\ provider \in [Vols -> Providers]
    /\ replicas \in 0..NVols
    /\ pvcs = [k \in 1..NVols |-> [Name |-> ClaimName(k - 1), VolumeName |-> k]]
    /\ pc = "idle"
    /\ NoLocals

Finish(e, p) == /\ err' = e /\ pc' = p

\* resizeVolumes, lines 84-95: parse the size, list the volumes.  The size
\* and the resizers are the caller's, drawn from sizes and lists.
BeginWith(sizes, lists) ==
    /\ pc = "idle"
    /\ \E s \in sizes, fault \in StoreFaults :
         LET l == listVolumesWithManifestSize(s, fault, capacity)
         IN  /\ op' = "resize"
             /\ size' = s
             /\ calls' = l.gets
             /\ before' = capacity
             /\ pvs' = l.pvs
             /\ i' = 1
             /\ IF l.err # "nil" THEN Finish(l.err, "returned") ELSE Finish("nil", "pv")
             /\ \E rs \in lists :
                  /\ resizers' = rs
                  /\ connected' = [r \in 1..Len(rs) |-> FALSE]
    /\ UNCHANGED <<capacity, world, j, loopVar, totalCompatible, deferred, need>>

ResizeBegin == BeginWith(SizeInputs, ResizerLists)

\* lines 96-103: the next volume, its size against the manifest's
NextVolume ==
    /\ pc = "pv"
    /\ IF i > Len(pvs)
       THEN /\ pc' = "end"
            /\ UNCHANGED <<i, j, err>>
       ELSE LET volumeSize == quantityToGigabyte(pvs[i].cap)
            IN  IF Shrinks(volumeSize, newSize)
                THEN /\ Finish("ShrinkNotSupported", "defers")
                     /\ UNCHANGED <<i, j>>
                ELSE IF AtTarget(volumeSize, newSize)
                THEN /\ i' = i + 1
                     /\ UNCHANGED <<pc, j, err>>
                ELSE /\ j' = 1
                     /\ pc' = "resizer"
                     /\ UNCHANGED <<i, err>>
    /\ UNCHANGED <<capacity, world, op, size, resizers, connected, pvs, loopVar,
                   totalCompatible, deferred, need, calls, before>>

\* lines 104-109: the next resizer of the list, its ownership predicate
NextResizer ==
    /\ pc = "resizer"
    /\ IF j > Len(resizers)
       THEN /\ i' = i + 1
            /\ pc' = "pv"
            /\ UNCHANGED <<j, loopVar, totalCompatible>>
       ELSE /\ loopVar' = [loopVar EXCEPT ![i] = j]
            /\ IF ~VolumeBelongsToProvider(j, pvs[i].vol)
               THEN /\ j' = j + 1
                    /\ UNCHANGED <<pc, totalCompatible>>
               ELSE /\ totalCompatible' = totalCompatible + 1
                    /\ pc' = IF NeedsConnect(j) THEN "connect" ELSE "getid"
                    /\ UNCHANGED j
            /\ UNCHANGED i
    /\ UNCHANGED <<capacity, world, op, size, resizers, connected, pvs,
                   deferred, err, need, calls, before>>

\* lines 110-119: ConnectToProvider, and the deferred disconnect
Connect ==
    /\ pc = "connect"
    /\ \E ok \in BOOLEAN :
         /\ calls' = Append(calls, Event("connect", j, pvs[i].vol, ok))
         /\ IF ok
            THEN /\ connected' = AfterConnect(connected, j)
                 /\ deferred' = Append(deferred, [loop |-> i, resizer |-> j])
                 /\ pc' = "getid"
                 /\ UNCHANGED err
            ELSE /\ Finish("ProviderConnectionError", "defers")
                 /\ UNCHANGED <<connected, deferred>>
    /\ UNCHANGED <<capacity, world, op, size, resizers, pvs, i, j, loopVar,
                   totalCompatible, need, before>>

\* A call to the backend that changes nothing here: it succeeds or ends the batch.
BackendStep(at, call, arg, failure, next) ==
    /\ pc = at
    /\ \E ok \in BOOLEAN :
         /\ calls' = Append(calls, EventArg(call, j, pvs[i].vol, ok, arg))
         /\ IF ok THEN pc' = next /\ UNCHANGED err
                  ELSE Finish(failure, "defers")
    /\ UNCHANGED <<capacity, world, op, size, resizers, connected, pvs, i, j,
                   loopVar, totalCompatible, deferred, need, before>>

\* lines 120-123
GetProviderVolumeID == BackendStep("getid", "getid", 0, "ProviderConnectionError", "resize")

\* lines 124-127
ResizeVolume == BackendStep("resize", "resize", newSize, "BlockResizeError", "fsresize")

\* lines 128-133
ResizeFilesystem == BackendStep("fsresize", "fsresize", 0, "FilesystemResizeError", "update")

\* lines 134-139: the capacity is set on the local copy, then written to the store
UpdateVolume ==
    /\ pc = "update"
    /\ pvs' = [pvs EXCEPT ![i].cap = newQuantity]
    /\ \E ok \in BOOLEAN :
         /\ calls' = Append(calls, EventArg("update", j, pvs[i].vol, ok, newQuantity))
         /\ IF ok
            THEN /\ capacity' = [capacity EXCEPT ![pvs[i].vol] = newQuantity]
                 /\ j' = j + 1
                 /\ pc' = "resizer"
                 /\ UNCHANGED err
            ELSE /\ Finish("StoreAccessError", "defers")
                 /\ UNCHANGED <<capacity, j>>
    /\ UNCHANGED <<world, op, size, resizers, connected, i, loopVar,
                   totalCompatible, deferred, need, before>>

\* lines 142-145
EndOfBatch ==
    /\ pc = "end"
    /\ IF NoneCompatible(Len(pvs), totalCompatible)
       THEN Finish("NoCompatibleProvider", "defers")
       ELSE Finish("nil", "defers")
    /\ UNCHANGED <<capacity, world, op, size, resizers, connected, pvs, i, j,
                   loopVar, totalCompatible, deferred, need, calls, before>>

\* The resizer a deferred closure of lines 114-118 disconnects: the closure
\* names the loop's variable `resizer` and reads it when it runs, at the
\* return; the variable then holds the value the loop of that volume ended on.
DeferredTarget(d) == loopVar[d.loop]

\* lines 114-118, at the return: the deferred closures, newest first; an error
\* of DisconnectFromProvider is logged and changes nothing
RunDeferred ==
    /\ pc = "defers"
    /\ IF deferred = <<>>
       THEN /\ pc' = "returned"
            /\ UNCHANGED <<connected, deferred, calls>>
       ELSE LET d == deferred[Len(deferred)]
                r == DeferredTarget(d)
            IN  /\ calls' = Append(calls, Event("disconnect", r, 0, TRUE))
                /\ connected' = AfterDisconnect(connected, r)
                /\ deferred' = SubSeq(deferred, 1, Len(deferred) - 1)
                /\ UNCHANGED pc
    /\ UNCHANGED <<capacity, world, op, size, resizers, pvs, i, j, loopVar,
                   totalCompatible, err, need, before>>

\* volumesNeedResizing, lines 148-160
VolumesNeedResizing ==
    /\ pc = "idle"
    /\ \E s \in SizeInputs, fault \in StoreFaults :
         LET l == listVolumesWithManifestSize(s, fault, capacity)
         IN  /\ op' = "needs"
             /\ size' = s
             /\ calls' = l.gets
             /\ before' = capacity
             /\ pvs' = l.pvs
             /\ need' = (l.err = "nil" /\ SomeSizeDiffers(l.pvs, l.newSize))
             /\ Finish(l.err, "returned")
    /\ UNCHANGED <<capacity, world, resizers, connected, i, j, loopVar,
                   totalCompatible, deferred>>

\* The caller takes the result; the call's locals are gone.
Return ==
    /\ pc = "returned"
    /\ pc' = "idle"
    /\ op' = "none" /\ size' = [parses |-> FALSE, quantity |-> 0]
    /\ resizers' = <<>> /\ connected' = <<>>
    /\ pvs' = <<>> /\ i' = 0 /\ j' = 0
    /\ loopVar' = [v \in Vols |-> 0]
    /\ totalCompatible' = 0 /\ deferred' = <<>>
    /\ err' = "nil" /\ need' = FALSE /\ calls' = <<>>
    /\ before' = [v \in Vols |-> 0]
    /\ UNCHANGED <<capacity, world>>

Next ==
    \/ ResizeBegin
    \/ NextVolume
    \/ NextResizer
    \/ Connect
    \/ GetProviderVolumeID
    \/ ResizeVolume
    \/ ResizeFilesystem
    \/ UpdateVolume
    \/ EndOfBatch
    \/ RunDeferred
    \/ VolumesNeedResizing
    \/ Return

Spec == Init /\ [][Next]_vars

----------------------------------------------------------------------------
\* Repeated passes of resizeVolumes with one manifest size, no smaller than
\* any capacity, and a list with one resizer of each provider, so that every
\* volume has exactly one owner.  A pass is started again after each return;
\* a call that is made again and again succeeds again and again.
PassSize == [parses |-> TRUE, quantity |-> MaxQty]

PassResizers == {<<"ebs", "gce">>, <<"gce", "ebs">>}

ResizePass == BeginWith({PassSize}, PassResizers)

ListOk == ResizePass /\ pc' = "pv"
ConnectOk == Connect /\ pc' = "getid"
GetProviderVolumeIDOk == GetProviderVolumeID /\ pc' = "resize"
ResizeVolumeOk == ResizeVolume /\ pc' = "fsresize"
ResizeFilesystemOk == ResizeFilesystem /\ pc' = "update"
UpdateVolumeOk == UpdateVolume /\ pc' = "resizer"

\* The steps of a pass under way: a call that was begun runs to its return.
PassSteps ==
    \/ NextVolume
    \/ NextResizer
    \/ Connect
    \/ GetProviderVolumeID
    \/ ResizeVolume
    \/ ResizeFilesystem
    \/ UpdateVolume
    \/ EndOfBatch
    \/ RunDeferred
    \/ Return

NextPasses == ResizePass \/ PassSteps

SpecPasses ==
    /\ Init
    /\ [][NextPasses]_vars
    /\ WF_vars(PassSteps)
    /\ SF_vars(ListOk)
    /\ SF_vars(ConnectOk)
    /\ SF_vars(GetProviderVolumeIDOk)
    /\ SF_vars(ResizeVolumeOk)
    /\ SF_vars(ResizeFilesystemOk)
    /\ SF_vars(UpdateVolumeOk)

----------------------------------------------------------------------------
\* The same calls on a store in which one claim has any of the names the
\* parsing of lines 62-68 tells apart: a small ordinal, an ordinal beyond
\* int32, a token that is no number, no dash, a trailing dash, a leading
\* dash only, two dashes.
ClaimNames ==
    {ClaimName(n) : n \in 0..NVols}
        \cup { <<"d", "-", "4", "2", "9", "4", "9", "6", "7", "2", "9", "6">>,
               <<"d", "-", "x">>,
               <<"d", "-", "x", "-", "1">>,
               <<"d">>,
               <<"d", "-">>,
               <<"-", "1">>,
               <<"-", "x">> }

InitNames ==
    /\ capacity = [v \in Vols |-> 1]
    /\ provider = [v \in Vols |-> "ebs"]
    /\ replicas \in 0..NVols
    /\ \E p \in 1..NVols, name \in ClaimNames :
         pvcs = [k \in 1..NVols |->
                    [Name |-> IF k = p THEN name ELSE ClaimName(k - 1), VolumeName |-> k]]
    /\ pc = "idle"
    /\ NoLocals

\* The calls made on it: resizeVolumes with any size and one resizer, and
\* volumesNeedResizing.
ResizeNamed == BeginWith(SizeInputs, {<<p>> : p \in Providers})

NextNames ==
    \/ ResizeNamed
    \/ PassSteps
    \/ VolumesNeedResizing

SpecNames == InitNames /\ [][NextNames]_vars

----------------------------------------------------------------------------
\* What the claims speak about.
Returned(o) == pc = "returned" /\ op = o

\* The volumes of the batch (the listing succeeded and was not empty).
Batch == {pvs[k].vol : k \in 1..Len(pvs)}

\* currentSize of a volume when the call began, and the target
CurrentSize(v) == quantityToGigabyte(before[v])
Target == newSize

\* The resizers of the list whose ownership predicate matches the volume.
Matches(v) == {r \in 1..Len(resizers) : VolumeBelongsToProvider(r, v)}

Count(c, v) == Cardinality({k \in 1..Len(calls) : calls[k].call = c /\ calls[k].vol = v})
CountAt(c, r) == Cardinality({k \in 1..Len(calls) : calls[k].call = c /\ calls[k].r = r})
NoFailedCall == \A k \in 1..Len(calls) : calls[k].ok

\* Places of the batch whose volume is larger than the target.
Shrinkers == {k \in 1..Len(pvs) : CurrentSize(pvs[k].vol) > Target}

\* What volumesNeedResizing returns on the store as it is now, for the size
\* of the running call.
NeedsResizeNow ==
    LET l == listVolumesWithManifestSize(size, NoFault, capacity)
    IN  l.err = "nil" /\ SomeSizeDiffers(l.pvs, l.newSize)

\* C1: grow-only. No step of any call sets a volume's recorded capacity in
\* the store below the value it had before the step.
C1_GrowOnly == [][\A v \in Vols : capacity'[v] >= capacity[v]]_vars

\* C1 witness: a resize call has raised a volume's recorded capacity.
C1_Witness == op = "resize" /\ \E v \in Batch : capacity[v] > before[v]

\* C2 as stated: a batch holding a volume larger than the target makes resize
\* return ShrinkNotSupported and leaves every volume's capacity as it was.
C2_Original ==
    (Returned("resize") /\ Shrinkers # {})
        => (err = "ShrinkNotSupported" /\ capacity = before)

\* C2 amended: a batch holding a volume larger than the target makes resize
\* return an error, ShrinkNotSupported unless a call made for an earlier
\* volume failed first, and the capacity of the first such volume and of
\* every volume after it in the enumeration order is as it was.
C2_ShrinkRejected ==
    (Returned("resize") /\ Shrinkers # {})
        => /\ err # "nil"
           /\ NoFailedCall => err = "ShrinkNotSupported"
           /\ \A k \in 1..Len(pvs) :
                (\E m \in Shrinkers : m <= k)
                    => capacity[pvs[k].vol] = before[pvs[k].vol]

\* C2 witness: the shrink is rejected at the second volume, after the first
\* was grown.
C2_Witness ==
    /\ Returned("resize") /\ err = "ShrinkNotSupported"
    /\ Shrinkers = {2}
    /\ capacity[pvs[1].vol] > before[pvs[1].vol]

\* C3: for a volume of the batch whose size equals the target, resize makes
\* no backend call and no store update (only the listing's Get names it).
C3_IdempotentSkip ==
    op = "resize" =>
        \A v \in Batch :
            CurrentSize(v) = Target
                => \A k \in 1..Len(calls) : calls[k].vol = v => calls[k].call = "get"

\* C3 witness: a call returned in which one volume was at the target and
\* another was grown.
C3_Witness ==
    /\ Returned("resize")
    /\ \E v \in Batch : CurrentSize(v) = Target
    /\ \E v \in Batch : Count("update", v) > 0

\* C4 as stated: a batch whose volumes are all at the target and all owned
\* by a supplied backend makes resize return nil.
C4_NoOpIsNotAnError ==
    (/\ Returned("resize") /\ pvs # <<>>
     /\ \A v \in Batch : CurrentSize(v) = Target /\ Matches(v) # {})
        => err = "nil"

\* C5 as stated: a non-empty batch none of whose volumes is matched by any
\* backend of the list makes resize return NoCompatibleProvider.
C5_Original ==
    (/\ Returned("resize") /\ pvs # <<>>
     /\ \A v \in Batch : Matches(v) = {})
        => err = "NoCompatibleProvider"

\* C5 amended: such a batch makes resize return NoCompatibleProvider when no
\* volume is larger than the target, and ShrinkNotSupported when one is.
C5_NoCompatibleProvider ==
    (/\ Returned("resize") /\ pvs # <<>>
     /\ \A v \in Batch : Matches(v) = {})
        => err = IF Shrinkers = {} THEN "NoCompatibleProvider" ELSE "ShrinkNotSupported"

\* C5 witness: a volume below the target, a non-empty list that does not
\* match it, and NoCompatibleProvider returned.
C5_Witness ==
    /\ Returned("resize") /\ err = "NoCompatibleProvider"
    /\ resizers # <<>>
    /\ \A v \in Batch : Matches(v) = {}
    /\ \E v \in Batch : CurrentSize(v) < Target

\* C6 as stated: a volume below the target that two backends of the list
\* match makes resize return an error, and no volume is block-resized more
\* than once in a batch.
C6_AmbiguousIsAnError ==
    (/\ Returned("resize")
     /\ \E v \in Batch : CurrentSize(v) < Target /\ Cardinality(Matches(v)) >= 2)
        => /\ err # "nil"
           /\ \A v \in Batch : Count("resize", v) <= 1

\* C7 as stated: in a batch where a backend matches some volume, a volume
\* below the target that no backend matches makes resize return an error.
C7_AbsentIsAnError ==
    (/\ Returned("resize")
     /\ \E v \in Batch : Matches(v) # {}
     /\ \E v \in Batch : CurrentSize(v) < Target /\ Matches(v) = {})
        => err # "nil"

\* C8 as stated: when resize returns, disconnect has been invoked exactly
\* once on each backend it connected, and on no other.
C8_ReleasedOnce ==
    Returned("resize") =>
        \A r \in 1..Len(resizers) :
            CountAt("disconnect", r)
                = IF \E k \in 1..Len(calls) :
                        calls[k].call = "connect" /\ calls[k].r = r /\ calls[k].ok
                  THEN 1 ELSE 0

\* C9: within one resize call, connect is invoked at most once on each
\* backend; a later matching volume uses the open connection.
C9_ConnectOnce ==
    op = "resize" => \A r \in 1..Len(resizers) : CountAt("connect", r) <= 1

\* C9 witness: one backend block-resized two volumes after a single connect.
C9_Witness ==
    /\ Returned("resize")
    /\ \E r \in 1..Len(resizers) :
         /\ CountAt("connect", r) = 1
         /\ CountAt("resize", r) >= 2

\* C10 as stated: when resize returns nil, volumesNeedResizing called next
\* with the same size returns false.
C10_RoundTrip ==
    (Returned("resize") /\ err = "nil") => ~NeedsResizeNow

\* The entries of the call history made on the resizer at place r.
CallsAt(r) == {k \in 1..Len(calls) : calls[k].r = r}

\* C11 as stated: a batch of one volume below the target, a list of one
\* matching and one non-matching backend in either order, every call
\* succeeding: resize returns nil after exactly one connect, on the
\* matching backend, one block-resize with the target size, one
\* filesystem-resize and one capacity update to the target, and the
\* non-matching backend receives no call.
C11_SingleVolumeScenario ==
    (/\ Returned("resize") /\ NoFailedCall
     /\ Len(pvs) = 1 /\ CurrentSize(pvs[1].vol) < Target
     /\ Len(resizers) = 2 /\ Cardinality(Matches(pvs[1].vol)) = 1)
        => LET v == pvs[1].vol
               m == CHOOSE r \in Matches(v) : TRUE
           IN  /\ err = "nil"
               /\ Count("connect", v) = 1 /\ CountAt("connect", m) = 1
               /\ Count("resize", v) = 1
               /\ \A k \in 1..Len(calls) :
                    calls[k].call = "resize" => calls[k].arg = quantityToGigabyte(size.quantity)
               /\ Count("fsresize", v) = 1
               /\ Count("update", v) = 1
               /\ capacity[v] = size.quantity
               /\ \A r \in 1..2 : r # m => CallsAt(r) = {}

----------------------------------------------------------------------------
\* Claims about the names of the claims, stated on SpecNames.

\* The name is <base>-<token>: a dash that is not its first character,
\* then a non-empty token without a dash.
HasToken(name) ==
    \E d \in 2..(Len(name) - 1) :
        /\ name[d] = "-"
        /\ \A k \in (d + 1)..Len(name) : name[k] # "-"

Token(name) ==
    LET d == CHOOSE d \in 2..(Len(name) - 1) :
                /\ name[d] = "-"
                /\ \A k \in (d + 1)..Len(name) : name[k] # "-"
    IN  SubSeq(name, d + 1, Len(name))

AllDigits(t) == \A k \in 1..Len(t) : IsDigit(t[k])

\* The name ends in an integer ordinal: <base>-<digits>.
HasOrdinal(name) == HasToken(name) /\ AllDigits(Token(name))

\* The ordinal of the name is at least n (n below Word).
OrdinalAtLeast(name, n) ==
    LET o == DecValue(Token(name)) IN o.hi > 0 \/ o.lo >= n

\* The listing of the running call went through: the size parsed, no store
\* call failed and no name was refused.
ListingDone ==
    /\ op # "none" /\ size.parses
    /\ \A k \in 1..Len(calls) : calls[k].call \in {"list", "get"} => calls[k].ok
    /\ ~(pc = "returned" /\ err = "MalformedIdentifier")

Listed == {pvs[k].vol : k \in 1..Len(pvs)}

Fetched == {calls[k].vol : k \in {n \in 1..Len(calls) : calls[n].call = "get"}}

\* C12 as stated: a claim whose name ends in the integer ordinal N is left
\* out of the listing, and its volume is not fetched, when N >= R, and is in
\* the listing when N < R, for the replica count R.
C12_ReplicaFilter ==
    ListingDone =>
        \A k \in 1..Len(pvcs) :
            HasOrdinal(pvcs[k].Name) =>
                IF OrdinalAtLeast(pvcs[k].Name, replicas)
                THEN pvcs[k].VolumeName \notin Listed /\ pvcs[k].VolumeName \notin Fetched
                ELSE pvcs[k].VolumeName \in Listed

\* The name is <base>-<token> with a token that is no number.
MalformedToken(name) == HasToken(name) /\ ~AllDigits(Token(name))

StoreCallsOk == \A k \in 1..Len(calls) : calls[k].call \in {"list", "get"} => calls[k].ok

\* No call was made to a backend and none that changes the store.
OnlyReads ==
    /\ \A k \in 1..Len(calls) : calls[k].call \in {"list", "get"}
    /\ capacity = before

EndsInInteger(name) ==
    \E d \in 1..(Len(name) - 1) :
        /\ name[d] = "-"
        /\ \A k \in (d + 1)..Len(name) : IsDigit(name[k])

\* C14 as stated: a claim whose name does not end in '-<integer>' (no dash,
\* a trailing dash, a last token that is not a number) is listed with its
\* volume, and the listing returns no error because of the name.
C14_Original ==
    (op # "none" /\ size.parses /\ StoreCallsOk)
        => \A k \in 1..Len(pvcs) :
             ~EndsInInteger(pvcs[k].Name)
                => /\ ~(pc = "returned" /\ err = "MalformedIdentifier")
                   /\ pvcs[k].VolumeName \in Listed

\* C14, amended: a claim whose name has no dash, ends in a dash, or has its
\* last dash as first character is listed with its volume whatever the
\* replica count, and the listing returns no error because of the name.
C14_NoOrdinalEligible ==
    (/\ op # "none" /\ size.parses /\ StoreCallsOk
     /\ \A m \in 1..Len(pvcs) : ~MalformedToken(pvcs[m].Name))
        => \A k \in 1..Len(pvcs) :
             ~HasToken(pvcs[k].Name)
                => /\ ~(pc = "returned" /\ err = "MalformedIdentifier")
                   /\ pvcs[k].VolumeName \in Listed

\* a name with a leading dash only, "-1", is listed when no pod runs
C14_Witness ==
    /\ Returned("needs") /\ err = "nil" /\ replicas = 0
    /\ \E k \in 1..Len(pvcs) :
         /\ LastIndex(pvcs[k].Name, "-") = 0
         /\ EndsInInteger(pvcs[k].Name)
         /\ pvcs[k].VolumeName \in Listed

----------------------------------------------------------------------------
\* C15: when the size does not parse, or listing the claims fails, or the
\* Get of an eligible claim's volume fails (the last one as well), resize
\* returns an error with no backend call and no store update: a partial
\* list is never processed.
C15_NothingBeforeBatchKnown ==
    (op = "resize" /\ (~size.parses \/ ~StoreCallsOk))
        => /\ pc = "returned" /\ err # "nil"
           /\ pvs = <<>>
           /\ OnlyReads

\* the Get of the last eligible claim failed after an earlier one succeeded
C15_Witness ==
    /\ Returned("resize") /\ err = "StoreAccessError"
    /\ \E k \in 2..Len(calls) :
         /\ calls[k].call = "get" /\ ~calls[k].ok
         /\ calls[k - 1].call = "get" /\ calls[k - 1].ok

\* The volume at place m of the batch was grown by the running call.
Grown(m) ==
    \E k \in 1..Len(calls) :
        calls[k].call = "update" /\ calls[k].ok /\ calls[k].vol = pvs[m].vol

\* C16: when resize returns an error met at the volume at place i, every
\* volume before it that was grown by this call has the target as recorded
\* capacity, and every volume after it has received no backend call and no
\* store update.
C16_PartialBatch ==
    (Returned("resize") /\ err # "nil" /\ pvs # <<>>)
        => \A m \in 1..Len(pvs) :
             /\ (m < i /\ Grown(m)) => capacity[pvs[m].vol] = size.quantity
             /\ m > i => /\ capacity[pvs[m].vol] = before[pvs[m].vol]
                         /\ \A k \in 1..Len(calls) :
                              calls[k].vol = pvs[m].vol => calls[k].call = "get"

\* the second volume failed after the first was grown
C16_Witness ==
    /\ Returned("resize") /\ err \notin {"nil", "NoCompatibleProvider"}
    /\ i = 2 /\ Grown(1)
    /\ capacity[pvs[1].vol] > before[pvs[1].vol]

\* The entry at place k of the history follows a successful call c made on
\* the same resizer for the same volume.
Follows(k, c) ==
    /\ k > 1
    /\ calls[k - 1].call = c /\ calls[k - 1].ok
    /\ calls[k - 1].vol = calls[k].vol /\ calls[k - 1].r = calls[k].r

\* C17 as stated: for each volume the calls are made in the order
\* identifier, block-resize, filesystem-resize, capacity update, the update
\* only after both resizes succeeded; and when one of the first three fails
\* for a volume, resize returns an error and that volume's recorded capacity
\* is as before the call.
C17_StepOrder ==
    op = "resize" =>
        /\ \A k \in 1..Len(calls) :
             /\ calls[k].call = "resize" => Follows(k, "getid")
             /\ calls[k].call = "fsresize" => Follows(k, "resize")
             /\ calls[k].call = "update" => Follows(k, "fsresize")
        /\ \A k \in 1..Len(calls) :
             (pc = "returned" /\ calls[k].call \in {"getid", "resize", "fsresize"} /\ ~calls[k].ok)
                => /\ err # "nil"
                   /\ capacity[calls[k].vol] = before[calls[k].vol]

\* The volumes the listing owes: those of the claims whose ordinal is below
\* the replica count, or that have none.
EligibleVols ==
    {pvcs[k].VolumeName : k \in {n \in 1..Len(pvcs) :
        ~(HasOrdinal(pvcs[n].Name) /\ OrdinalAtLeast(pvcs[n].Name, replicas))}}

\* C18: needsResize makes no backend call and no store update; when the
\* size parses and the listing succeeds it returns true exactly when some
\* eligible volume's size differs from the target, whether larger or
\* smaller, and false for an empty batch.
C18_NeedsResizePure ==
    Returned("needs") =>
        /\ OnlyReads
        /\ (size.parses /\ StoreCallsOk)
              => /\ err = "nil"
                 /\ need = (\E v \in EligibleVols :
                              quantityToGigabyte(capacity[v]) # quantityToGigabyte(size.quantity))

\* true for a volume larger than the target
C18_Witness ==
    /\ Returned("needs") /\ err = "nil" /\ need
    /\ \A v \in EligibleVols : quantityToGigabyte(capacity[v]) >= quantityToGigabyte(size.quantity)

\* Before the entry at place k of the history, resizer r was connected with
\* success and not disconnected since.
ConnectedAt(k, r) ==
    LET opened == {c \in 1..(k - 1) :
                     calls[c].call = "connect" /\ calls[c].ok /\ calls[c].r = r}
    IN  /\ opened # {}
        /\ \A d \in (Max(opened) + 1)..(k - 1) :
              ~(calls[d].call = "disconnect" /\ calls[d].r = r)

\* C19: the identifier resolution and the block-resize are called on a
\* backend only while it is connected; when connect fails, resize returns an
\* error and makes no identifier, block-resize, filesystem-resize or update
\* call afterwards.
\* The history grows by one call at a time, so each call is judged when it
\* is the last entry.
C19_OnlyWhileConnected ==
    (op = "resize" /\ calls # <<>>) =>
        LET n == Len(calls)
            failed == {k \in 1..n : calls[k].call = "connect" /\ ~calls[k].ok}
        IN  /\ pc \in {"getid", "resize"} => connected[j]
            /\ calls[n].call \in {"getid", "resize"} => ConnectedAt(n, calls[n].r)
            /\ failed # {}
                  => /\ calls[n].call \in {"connect", "disconnect"}
                     /\ calls[n].call = "connect" => failed = {n}
                     /\ pc \in {"defers", "returned"}
                     /\ pc = "returned" => err # "nil"

\* a second volume used the connection the first one opened
C19_Witness ==
    /\ op = "resize"
    /\ \E k \in 1..Len(calls), n \in 1..Len(calls) :
         /\ k < n
         /\ calls[k].call = "getid" /\ calls[n].call = "resize"
         /\ calls[k].r = calls[n].r /\ calls[k].vol # calls[n].vol
         /\ Cardinality({c \in 1..Len(calls) : calls[c].call = "connect"}) = 1

----------------------------------------------------------------------------
\* Every eligible volume has the size of the passes, in the capacities c.
AllAtTarget(c) ==
    \A v \in EligibleVols : quantityToGigabyte(c[v]) = quantityToGigabyte(PassSize.quantity)

Converged == AllAtTarget(capacity)

\* A pass begun with every eligible volume at the target makes no
\* block-resize, filesystem-resize or update call.
QuietOnceConverged ==
    (op = "resize" /\ AllAtTarget(before))
        => \A k \in 1..Len(calls) : calls[k].call \notin {"resize", "fsresize", "update"}

\* C20: with a fixed target not below any current size, every eligible
\* volume owned by exactly one supplied backend and operations that succeed
\* again and again, repeated passes of resize reach a state where every
\* eligible volume's recorded capacity equals the target and stay there; a
\* pass begun from then on makes no block-resize, filesystem-resize or
\* update call.
C20_Convergence == <>[]Converged /\ []QuietOnceConverged

\* a further pass over volumes that earlier passes have grown
C20_Witness ==
    /\ Returned("resize") /\ pvs # <<>>
    /\ AllAtTarget(before)
    /\ \A k \in 1..Len(pvs) : capacity[pvs[k].vol] = PassSize.quantity

====
